---- MODULE Spec2Model ----
(***************************************************************************)
(* Particle hero of the portfolio site (src/hero-particles.js):            *)
(*   - PoissonDiskSampling: constructor, addPoint, isValidPoint, fill      *)
(*   - MorphingParticles: update / render / animate, the simulation        *)
(*     fragment shader, the hover controller                               *)
(*   - MorphingParticles: loadImage, createBasePoints, createImagePoints   *)
(* Coordinates of the sampler are points of the integer lattice of the     *)
(* domain; cellSize = minDistance / sqrt(2) is irrational, so cell indices *)
(* are computed exactly by comparing squares.                              *)
(***************************************************************************)
EXTENDS Integers, Sequences, FiniteSets, TLC

\* ------------------------------------------------------------------------
\* 1. POISSON DISK SAMPLING
\* ------------------------------------------------------------------------

\* options.shape = [ShapeW, ShapeH]
ShapeW == 10
ShapeH == 7
\* options.minDistance, options.maxDistance, options.tries
MinDistance == 6
MaxDistance == 8
MaxTries == 1

VARIABLES
  grid,         \* this.grid: cell index -> accepted point or NoPoint
  points,       \* this.points
  activeList,   \* this.activeList
  fillPc,       \* position inside fill(): "start", "loop", "try", "done"
  randomIndex,  \* fill(): index drawn for this iteration of the while loop
  tries,        \* fill(): the for loop's counter i
  exhausted     \* history: the parents whose for loop ended with found = false

fillVars == <<grid, points, activeList, fillPc, randomIndex, tries, exhausted>>

\* MorphingParticles and its frame loop (section 2)
VARIABLES
  pc,               \* "loading", "failed", "animate0", "render0", "timer",
                    \* "idle", "render": where init() / animate() stand
  listening,        \* setupEvents() has registered the listeners
  pointerOver,      \* environment: the pointer is over the container
  innerWidth,       \* window.innerWidth
  width, height,    \* this.width, this.height
  isHovering,       \* this.isHovering
  hoverProgress,    \* this.hoverProgress
  time,             \* this.time
  timer,            \* the setTimeout of init(): "none", "armed", "fired"
  rt1, rt2,         \* this.rt1, this.rt2: which render target each names
  tex,              \* texture -> the modelled texel (x, scale, velocity)
  simUPosition,     \* simMaterial.uniforms.uPosition.value
  simUIsHovering,   \* simMaterial.uniforms.uIsHovering.value
  renderUPosition,  \* renderMaterial.uniforms.uPosition.value
  particle,         \* the texel's reference/target position and hash seeds
  glslBuild,        \* how the GLSL build evaluates smoothstep, edge0 >= edge1
  frame,            \* history: number of update() calls so far
  simRead,          \* history: texture the last simulation pass sampled
  simWrote,         \* history: texture the last simulation pass wrote
  prevWrote,        \* history: texture the pass before the last wrote
  prevTexel,        \* history: the texel the last simulation pass read
  prevHover,        \* history: hoverProgress before the last update()
  prevUniform,      \* history: uIsHovering of the pass before the last
  rampN,            \* history: updates made with the flag held since h = 0
  olderDist,        \* history: dist of the pass before the last, -1 if reborn
  olderMove,        \* history: how far that pass moved the particle, or -1
  drawCount,        \* history: number of render() calls so far
  drawnTex,         \* history: texture the last render() sampled
  rendererSize,     \* the size last given to this.renderer.setSize
  lastEvent,        \* history: the last handler or timer callback that ran
  flagBefore,       \* history: this.isHovering before it ran
  prevEvent,        \* history: the one that ran before it
  flagBefore2,      \* history: this.isHovering before that one ran
  events            \* history: number of handlers and callbacks run so far

appVars == <<pc, listening, pointerOver, innerWidth, width, height,
             isHovering, hoverProgress, time, timer, rt1, rt2, tex,
             simUPosition, simUIsHovering, renderUPosition, particle,
             glslBuild, frame, simRead, simWrote, prevWrote, prevTexel,
             prevHover, prevUniform, rampN, olderDist, olderMove, drawCount,
             drawnTex,
             rendererSize, lastEvent, flagBefore, prevEvent, flagBefore2,
             events>>

\* MorphingParticles.init() up to createImagePoints() (section 3)
VARIABLES
  mapPc,         \* "loading", "decoded", "sampled", "mapped": where init() stands
  imageData,     \* this.imageData: pixel -> red channel, NoImage before onload
  basePoints,    \* this.basePoints
  imagePoints,   \* createImagePoints(): the local imagePoints
  targetPoints   \* this.targetPoints

imageVars == <<mapPc, imageData, basePoints, imagePoints, targetPoints>>

\* one point sprite under the particle fragment shader (section 4)
VARIABLES
  vScale,        \* varying vScale, units of 1/Q
  vVelocity,     \* varying vVelocity, units of 1/Q
  uIsHovering,   \* renderMaterial.uniforms.uIsHovering, units of 1/Q
  fragIndex,     \* the fragments of the sprite shaded so far, in raster order
  framebuffer    \* gl_PointCoord -> alpha written, NotShaded or Discarded

spriteVars == <<vScale, vVelocity, uIsHovering, fragIndex, framebuffer>>

\* createSimulation() / createParticles(): one data texture and the uv attribute
VARIABLES
  texPc,         \* "data", "uvs", "done": which loop is running
  isTarget,      \* createDataTexture(points, isTarget): the second argument
  loopIndex,     \* the loop counter i
  data,          \* the Float32Array handed to the DataTexture, offset -> value
  uvs            \* createParticles(): the uv attribute, uvs[i + 1] for index i

textureVars == <<texPc, isTarget, loopIndex, data, uvs>>

\* main.js: the contact form after initFormHandling()
VARIABLES
  formPc,            \* "idle", "waiting" (Promise.all pending), "parsing"
                     \* (await response.json()), "success" (3000 ms timer set)
  apiRequest,        \* the fetch promise: "none", "pending", "fulfilled", "rejected"
  minAnimationTime,  \* the 1000 ms promise: "none", "pending", "resolved"
  response,          \* the Response the fetch resolved with, or NoResponse
  btnDisabled,       \* submitBtn.disabled
  btnContent,        \* submitBtn.innerHTML
  btnClasses,        \* submitBtn.classList
  originalContent,   \* submitBtn's data-original-content attribute, or NoAttr
  formData,          \* history: the data the last submit handler read
  errors,            \* history: what validateForm returned to it
  submits,           \* history: number of submit events handled
  requests,          \* history: number of fetch calls
  alerts             \* history: number of alert calls

formVars == <<formPc, apiRequest, minAnimationTime, response, btnDisabled,
              btnContent, btnClasses, originalContent, formData, errors, submits,
              requests, alerts>>

\* the projects CMS: loadProjects() and its callers
VARIABLES
  page,           \* "start" before autoInit() has run, "ready" after
  hasGrid,        \* the page has a .project-grid element
  hasStudy,       \* the page has a .case-study-main element and a project id
  projectsCache,  \* the closure variable projectsCache
  calls,          \* call of loadProjects -> where it stands and what it returned
  started,        \* history: number of loadProjects calls so far
  fetches,        \* history: number of fetch('data/projects.json') calls
  failures        \* history: number of calls that ended in the catch block

loaderVars == <<page, hasGrid, hasStudy, projectsCache, calls, started, fetches,
                failures>>

vars == <<fillVars, appVars, imageVars, spriteVars, textureVars, formVars, loaderVars>>

\* what the operations of one section leave alone
outsideFill == <<appVars, imageVars, spriteVars, textureVars, formVars, loaderVars>>
outsideApp == <<fillVars, imageVars, spriteVars, textureVars, formVars, loaderVars>>
outsideImage == <<fillVars, appVars, spriteVars, textureVars, formVars, loaderVars>>
outsideSprite == <<fillVars, appVars, imageVars, textureVars, formVars, loaderVars>>
outsideTexture == <<fillVars, appVars, imageVars, spriteVars, formVars, loaderVars>>
outsideForm == <<fillVars, appVars, imageVars, spriteVars, textureVars, loaderVars>>
outsideLoader == <<fillVars, appVars, imageVars, spriteVars, textureVars, formVars>>

NoPoint == <<-1, -1>>

Sq(a) == a * a

\* Math.floor(v / cellSize) for an integer v >= 0, cellSize = MinDistance / sqrt(2):
\* the largest g with g * MinDistance <= v * sqrt(2).
cellIndex == [v \in 0..(ShapeW + ShapeH) |->
                CHOOSE g \in 0..(2 * v) :
                  /\ Sq(g) * Sq(MinDistance) <= 2 * Sq(v)
                  /\ Sq(g + 1) * Sq(MinDistance) > 2 * Sq(v)]

CellFloor(v) == cellIndex[v]

\* Math.ceil(v / cellSize) for an integer v > 0.
CellCeil(v) == CHOOSE g \in 0..(2 * v + 1) :
                 /\ Sq(g) * Sq(MinDistance) >= 2 * Sq(v)
                 /\ (g = 0 \/ Sq(g - 1) * Sq(MinDistance) < 2 * Sq(v))

gridWidth == CellCeil(ShapeW)
gridHeight == CellCeil(ShapeH)

GridCells == 0..(gridWidth * gridHeight - 1)

\* rng() * shape[0], rng() * shape[1] with rng() in [0, 1)
DomainPoints == (0..(ShapeW - 1)) \X (0..(ShapeH - 1))

\* (cos(angle) * distance, sin(angle) * distance), distance in
\* [minDistance, maxDistance)
SpawnOffsets ==
  { o \in (-MaxDistance..MaxDistance) \X (-MaxDistance..MaxDistance) :
      /\ Sq(o[1]) + Sq(o[2]) >= Sq(MinDistance)
      /\ Sq(o[1]) + Sq(o[2]) < Sq(MaxDistance) }

\* dist < this.minDistance, dist the Euclidean distance of p and q
TooClose(p, q) == Sq(p[1] - q[1]) + Sq(p[2] - q[2]) < Sq(MinDistance)

\* the bounds test with > in place of >=
InShapeInclusive(point) ==
  ~ (point[1] < 0 \/ point[1] > ShapeW \/ point[2] < 0 \/ point[2] > ShapeH)

InShape(point) ==
  ~ (point[1] < 0 \/ point[1] >= ShapeW \/ point[2] < 0 \/ point[2] >= ShapeH)

\* a window of 3 x 3 cells
NarrowRadius == 2 - 1

searchRadius == 2

\* the search window without the candidate's own cell (dx = dy = 0 skipped)
SearchWindowOthers(gridX, gridY) ==
  { c \in (-searchRadius..searchRadius) \X (-searchRadius..searchRadius) :
      /\ c # <<0, 0>>
      /\ gridX + c[1] >= 0 /\ gridX + c[1] < gridWidth
      /\ gridY + c[2] >= 0 /\ gridY + c[2] < gridHeight }

\* The cells isValidPoint visits around (gridX, gridY).
SearchWindow(gridX, gridY) ==
  { c \in (-searchRadius..searchRadius) \X (-searchRadius..searchRadius) :
      /\ gridX + c[1] >= 0 /\ gridX + c[1] < gridWidth
      /\ gridY + c[2] >= 0 /\ gridY + c[2] < gridHeight }

\* The grid indices ny * gridWidth + nx that isValidPoint reads from each cell.
neighborIndex ==
  [gridX \in 0..(gridWidth - 1), gridY \in 0..(gridHeight - 1) |->
     { (gridY + c[2]) * gridWidth + (gridX + c[1]) : c \in SearchWindow(gridX, gridY) }]

isValidPoint(g, point) ==
  /\ InShape(point)
  /\ \A i \in neighborIndex[CellFloor(point[1]), CellFloor(point[2])] :
       g[i] # NoPoint => ~ TooClose(point, g[i])

\* addPoint(point): grid cell, points and activeList all take the point.
addPoint(point) ==
  LET gridX == CellFloor(point[1])
      gridY == CellFloor(point[2])
  IN /\ grid' = [grid EXCEPT ![gridY * gridWidth + gridX] = point]
     /\ points' = Append(points, point)
     /\ activeList' = Append(activeList, point)

\* a splice with delete count 0 (activeList.splice(i, 0))
SpliceNothing(s, i) == s

\* a splice that drops the last element whatever the index (activeList.pop())
SpliceLast(s, i) == SubSeq(s, 1, Len(s) - 1)

\* activeList.splice(i, 1), i a 0-based index
Splice(s, i) == [k \in 1..(Len(s) - 1) |-> IF k <= i THEN s[k] ELSE s[k + 1]]

\* new PoissonDiskSampling(options)
FillInit ==
  /\ grid = [c \in GridCells |-> NoPoint]
  /\ points = << >>
  /\ activeList = << >>
  /\ fillPc = "start"
  /\ randomIndex = 0
  /\ tries = 0
  /\ exhausted = {}

\* fill(): the first point
FillSeed ==
  /\ fillPc = "start"
  /\ \E firstPoint \in DomainPoints : addPoint(firstPoint)
  /\ fillPc' = "loop"
  /\ UNCHANGED <<randomIndex, tries, exhausted>>
  /\ UNCHANGED outsideFill

\* fill(): one turn of the while loop starts, a parent is drawn
FillPick ==
  /\ fillPc = "loop"
  /\ Len(activeList) > 0
  /\ \E i \in 0..(Len(activeList) - 1) : randomIndex' = i
  /\ tries' = 0
  /\ fillPc' = "try"
  /\ UNCHANGED <<grid, points, activeList, exhausted>>
  /\ UNCHANGED outsideFill

\* newPoint of fill(), spawned from the drawn parent by offset o
NewPoint(o) ==
  <<activeList[randomIndex + 1][1] + o[1], activeList[randomIndex + 1][2] + o[2]>>

\* fill(): one turn of the for loop, a candidate around the parent: a valid
\* candidate is added (found = true, break), an invalid one counts a try
FillTry ==
  /\ fillPc = "try"
  /\ tries < MaxTries
  /\ \/ /\ ~ (\A o \in SpawnOffsets : isValidPoint(grid, NewPoint(o)))
        /\ tries' = tries + 1
        /\ UNCHANGED <<grid, points, activeList, fillPc, randomIndex>>
     \/ /\ \E o \in SpawnOffsets :
            /\ isValidPoint(grid, NewPoint(o))
            /\ addPoint(NewPoint(o))
        /\ fillPc' = "loop"
        /\ UNCHANGED <<randomIndex, tries>>
  /\ UNCHANGED exhausted
  /\ UNCHANGED outsideFill

\* fill(): the for loop ended with found = false
FillExhaust ==
  /\ fillPc = "try"
  /\ tries >= MaxTries
  /\ activeList' = Splice(activeList, randomIndex)
  /\ exhausted' = exhausted \cup {activeList[randomIndex + 1]}
  /\ fillPc' = "loop"
  /\ UNCHANGED <<grid, points, randomIndex, tries>>
  /\ UNCHANGED outsideFill

\* fill(): the while loop ended, return this.points
FillReturn ==
  /\ fillPc = "loop"
  /\ Len(activeList) = 0
  /\ fillPc' = "done"
  /\ UNCHANGED <<grid, points, activeList, randomIndex, tries, exhausted>>
  /\ UNCHANGED outsideFill

FillNext == FillSeed \/ FillPick \/ FillTry \/ FillExhaust \/ FillReturn

\* ------------------------------------------------------------------------
\* 2. MORPHING PARTICLES
\* ------------------------------------------------------------------------
\* Shader quantities (positions, scale, velocity, lifeTime, time) are fixed
\* point numbers in units of 1/Q.  The configurations modelled are
\* collinear: every y coordinate is 0, so the shader's 2-D arithmetic
\* (normalize, length) reduces exactly to sign and absolute value on x.
\* One texel (one particle) of the 256 x 256 state textures is modelled.

Q == 1000

\* hoverProgress is a JS double: a fixed point number in units of 1/HoverOne.
\* The uniform uIsHovering is a 32-bit float, coarser than the double: a
\* fixed point number in units of 1/UniformOne.
HoverOne == 512
UniformOne == 16

\* frames (calls of update()) explored
MaxFrames == 3
MaxSimFrames == 150
MaxLifeFrames == 520
\* handlers run in one behaviour of Spec
MaxEvents == 3


\* a decimal constant of the source (given in thousandths) in units of 1/Q
Milli(n) == (n * Q) \div 1000

\* a / b rounded to the nearest integer, b > 0
RoundDiv(a, b) == (2 * a + b) \div (2 * b)

Abs(a) == IF a < 0 THEN -a ELSE a

\* normalize(v) of a vector on the x axis
Sign(a) == IF a < 0 THEN -1 ELSE IF a > 0 THEN 1 ELSE 0

Clamp(v, lo, hi) == IF v < lo THEN lo ELSE IF v > hi THEN hi ELSE v

\* t * t * (3.0 - 2.0 * t)
Hermite(t) == RoundDiv(t * t * (3 * Q - 2 * t), Q * Q)

\* the ratio taken between the edges in ascending order, whichever comes first
EdgeRatioForward(edge0, edge1, x) ==
  Clamp(IF edge1 > edge0
          THEN RoundDiv((x - edge0) * Q, edge1 - edge0)
          ELSE RoundDiv((x - edge1) * Q, edge0 - edge1), 0, Q)

\* clamp((x - edge0) / (edge1 - edge0), 0.0, 1.0)
EdgeRatio(edge0, edge1, x) ==
  Clamp(IF edge1 > edge0
          THEN RoundDiv((x - edge0) * Q, edge1 - edge0)
          ELSE RoundDiv((edge0 - x) * Q, edge0 - edge1), 0, Q)

\* GLSL smoothstep(edge0, edge1, x).  For edge0 < edge1 it is the Hermite
\* interpolation of the clamped ratio.  The shader also calls it with
\* edge0 > edge1 (smoothstep(0.15, 0.0, dist)), where GLSL leaves the result
\* undefined: a build either evaluates the same formula ("formula") or
\* tests x <= edge0 and x >= edge1 first ("compare").
smoothstep(build, edge0, edge1, x) ==
  IF edge0 < edge1 \/ build = "formula"
    THEN Hermite(EdgeRatio(edge0, edge1, x))
    ELSE IF x <= edge0 THEN 0 ELSE Q

\* mix(a, b, h * h), h = u / UniformOne
mix(a, b, u) == a + RoundDiv((b - a) * u * u, UniformOne * UniformOne)

\* the lifetime clock without the halving: mod(seed * 100.0 + uTime, lifeEnd)
LifeTimeFull(p, uTime) == (p.seedPhase + uTime) % p.lifeEnd

\* mod(seed * 100.0 + uTime * 0.5, lifeEnd)
LifeTime(p, uTime) == (p.seedPhase + uTime \div 2) % p.lifeEnd

\* smoothstep(0.01, 0.5, lifeTime) - smoothstep(0.5, 1.0, lifeTime / lifeEnd)
\* (the term added next in the shader is multiplied by 0.0)
TargetScale(build, lifeTime, lifeEnd) ==
  smoothstep(build, Milli(10), Milli(500), lifeTime)
    - smoothstep(build, Milli(500), Q, RoundDiv(lifeTime * Q, lifeEnd))

\* a blend rate above 1: scale += (targetScale - scale) * 2.0
BlendOvershoot(scale, targetScale) == scale + 2 * (targetScale - scale)

\* scale += (targetScale - scale) * 0.1
Blend(scale, targetScale) == scale + RoundDiv(targetScale - scale, 10)

\* a rebirth that resets the position only
RebirthScaleKept(scale) == scale

\* the rebirth branch: scale = 0.0
RebirthScale(scale) == 0

\* a step that ignores the distance falloff: pos.xy += direction * 0.01 * 3.0
MoveStepLong(distStrength) == 3 * Milli(10)

\* 0.01 * distStrength
MoveStep(distStrength) == RoundDiv(Milli(10) * distStrength, Q)

\* smoothstep(0.15, 0.001, dist) * uIsHovering
Velocity(falloff, u) == RoundDiv(falloff * u, UniformOne)

\* float dist = length(targetPos - pos.xy)
PassDist(pos, p, u) == Abs(mix(p.ref, p.tgt, u) - pos.x)

\* the simulation fragment shader's main() for the modelled texel:
\* pos the texel of uPosition, p the texel's refPos / nearestPos / seeds,
\* u the uniform uIsHovering
ShaderMain(pos, p, uTime, u, build) ==
  LET lifeTime == LifeTime(p, uTime)
      targetPos == mix(p.ref, p.tgt, u)
      direction == Sign(targetPos - pos.x)
      dist == Abs(targetPos - pos.x)
      distStrength == smoothstep(build, Milli(150), 0, dist)
      moved == IF dist > Milli(5)
                 THEN pos.x + direction * MoveStep(distStrength)
                 ELSE pos.x
      x1 == IF lifeTime < Milli(10) THEN p.ref ELSE moved
      scale1 == IF lifeTime < Milli(10) THEN RebirthScale(pos.scale)
                                        ELSE pos.scale
      targetScale == TargetScale(build, lifeTime, p.lifeEnd)
  IN [x |-> x1,
      scale |-> Blend(scale1, targetScale),
      velocity |-> Velocity(smoothstep(build, Milli(150), Milli(1), dist), u)]

\* a hover filter that overshoots: h += (target - h) * 1.5
HoverStepOver(h, targetHover) == h + RoundDiv((targetHover - h) * 3, 2)

\* a hover filter with the sign of the difference reversed:
\* h += (h - target) * 0.05
HoverStepAway(h, targetHover) == h + RoundDiv((h - targetHover) * 5, 100)

\* this.hoverProgress += (targetHover - this.hoverProgress) * 0.05
HoverStep(h, targetHover) == h + RoundDiv((targetHover - h) * 5, 100)

\* the double hoverProgress stored into the float uniform uIsHovering
ToFloat32(h) == RoundDiv(h * UniformOne, HoverOne)

\* window.innerWidth <= 768
Breakpoint == 768
\* a test that takes the breakpoint itself for a desktop width
isMobileStrict == innerWidth < Breakpoint

isMobileOrTablet == innerWidth <= Breakpoint

InnerWidths == {Breakpoint, Breakpoint + 1}

\* container.offsetWidth, container.offsetHeight (0: no layout box)
ContainerBoxes == {<<0, 0>>, <<300, 200>>}

\* window.innerHeight
InnerHeight == 600

\* bounds of HoverOne * 1000 * 0.95^n, rounded down and up
PowLo[n \in 0..(MaxSimFrames + 1)] ==
  IF n = 0 THEN HoverOne * 1000 ELSE (PowLo[n - 1] * 19) \div 20

PowHi[n \in 0..(MaxSimFrames + 1)] ==
  IF n = 0 THEN HoverOne * 1000 ELSE (PowHi[n - 1] * 19 + 19) \div 20

Pow(b, n) == IF n = 0 THEN 1 ELSE IF n = 1 THEN b ELSE IF n = 2 THEN b * b
             ELSE IF n = 3 THEN b * b * b ELSE IF n = 4 THEN b * b * b * b
             ELSE b * b * b * b * b

\* container.offsetWidth || window.innerWidth
OrInner(offset, inner) == IF offset = 0 THEN inner ELSE offset

\* the textures: the two render targets' and the DataTexture positionTexture
TexIds == {"A", "B", "P"}

\* a texel of a render target never rendered to (WebGL zero-initialises it)
BlankTexel == [x |-> 0, scale |-> 0, velocity |-> 0]

\* the texel's inputs: refPos.x (baseTexture), nearestPos.x (targetTexture),
\* seed * 100 and lifeEnd = 3 + sin(seed2 * 100) from hash(uv), and the
\* Math.random() createDataTexture stores as the initial scale
ParticleOf(ref, tgt, seedPhase, lifeEnd, rand) ==
  [ref |-> ref, tgt |-> tgt, seedPhase |-> seedPhase, lifeEnd |-> lifeEnd,
   rand |-> rand]

SpecParticles ==
  { ParticleOf(Milli(-200), Milli(-100), Milli(2984), Milli(3000), Milli(700)),
    ParticleOf(Milli(300), Milli(-400), Milli(500), Milli(2000), Milli(250)) }

SimParticles ==
  { ParticleOf(r[1], r[2], l[1], l[2], Milli(700)) :
      r \in { <<Milli(-200), Milli(-100)>>, <<Milli(40), Milli(-60)>>,
              <<Milli(300), Milli(-400)>>, <<Milli(120), Milli(120)>> },
      l \in { <<Milli(1984), Milli(2000)>>, <<Milli(2100), Milli(3000)>>,
              <<Milli(99500), Milli(4000)>> } }

\* particles about to end a lifetime: lifeEnd = 3 + sin(seed2 * 100) across
\* [2, 4], the phase seed * 100 up to MaxPhaseGap units short of lifeEnd
MaxPhaseGap == 16

LifeEnds ==
  {Milli(2000), Milli(2000) + 1, Milli(2000) + 3, Milli(3000) - 4, Milli(3000),
   Milli(4000) - 1, Milli(4000)}

LifeParticles ==
  { ParticleOf(Milli(-200), Milli(-100), lifeEnd - gap0, lifeEnd, Milli(700)) :
      lifeEnd \in LifeEnds, gap0 \in 1..MaxPhaseGap }

NoParticle == ParticleOf(0, 0, 0, Q, 0)

\* new MorphingParticles(container, imageUrl): the constructor and init()
\* up to its await of loadImage()
AppInitWith(widths, boxes, builds) ==
  /\ pc = "loading"
  /\ listening = FALSE
  /\ pointerOver \in BOOLEAN
  /\ innerWidth \in widths
  /\ \E box \in boxes :
       /\ width = OrInner(box[1], innerWidth)
       /\ height = OrInner(box[2], InnerHeight)
  /\ isHovering = FALSE
  /\ hoverProgress = 0
  /\ time = 0
  /\ timer = "none"
  /\ rt1 = "none"
  /\ rt2 = "none"
  /\ tex = [t \in TexIds |-> BlankTexel]
  /\ simUPosition = "none"
  /\ simUIsHovering = 0
  /\ renderUPosition = "none"
  /\ particle = NoParticle
  /\ glslBuild \in builds
  /\ frame = 0
  /\ simRead = "none"
  /\ simWrote = "none"
  /\ prevWrote = "none"
  /\ prevTexel = BlankTexel
  /\ prevHover = 0
  /\ prevUniform = 0
  /\ rampN = 0
  /\ olderDist = -1
  /\ olderMove = -1
  /\ drawCount = 0
  /\ drawnTex = "none"
  /\ rendererSize = <<width, height>>
  /\ lastEvent = "none"
  /\ flagBefore = FALSE
  /\ prevEvent = "none"
  /\ flagBefore2 = FALSE
  /\ events = 0

AppInit == AppInitWith(InnerWidths, ContainerBoxes, {"formula", "compare"})

eventHistory == <<lastEvent, flagBefore, prevEvent, flagBefore2, events>>

\* history: the handler or callback e runs now
Record(e) ==
  /\ lastEvent' = e
  /\ flagBefore' = isHovering
  /\ prevEvent' = lastEvent
  /\ flagBefore2' = flagBefore
  /\ events' = events + 1

historyVars == <<frame, simRead, simWrote, prevWrote, prevTexel, prevHover,
                 prevUniform, rampN, olderDist, olderMove, drawCount, drawnTex>>

\* img.onload: loadImage() resolves and init() goes on through
\* createBasePoints, createImagePoints, createSimulation, createParticles
\* and setupEvents, up to its call of animate()
LoadImageOk(particles) ==
  /\ pc = "loading"
  /\ \E p \in particles :
       /\ particle' = p
       /\ tex' = [tex EXCEPT !["P"] = [x |-> p.ref, scale |-> p.rand,
                                       velocity |-> 0]]
  /\ rt1' = "A"
  /\ rt2' = "B"
  /\ simUPosition' = "P"
  /\ renderUPosition' = "P"
  /\ listening' = TRUE
  /\ pc' = "animate0"
  /\ UNCHANGED <<pointerOver, innerWidth, width, height, isHovering,
                 hoverProgress, time, timer, simUIsHovering, glslBuild,
                 historyVars>>
  /\ UNCHANGED <<rendererSize, eventHistory>>
  /\ UNCHANGED outsideApp

\* an init() that catches the rejection and still runs setupEvents()
LoadImageErrorCaught ==
  /\ pc = "loading"
  /\ listening' = TRUE
  /\ pc' = "failed"
  /\ UNCHANGED <<pointerOver, innerWidth, width, height, isHovering,
                 hoverProgress, time, timer, rt1, rt2, tex, simUPosition,
                 simUIsHovering, renderUPosition, particle, glslBuild,
                 historyVars>>
  /\ UNCHANGED <<rendererSize, eventHistory>>
  /\ UNCHANGED outsideApp

\* img.onerror: loadImage() rejects and init() ends there
LoadImageError ==
  /\ pc = "loading"
  /\ pc' = "failed"
  /\ UNCHANGED <<listening, pointerOver, innerWidth, width, height,
                 isHovering, hoverProgress, time, timer, rt1, rt2, tex,
                 simUPosition, simUIsHovering, renderUPosition, particle,
                 glslBuild, historyVars>>
  /\ UNCHANGED <<rendererSize, eventHistory>>
  /\ UNCHANGED outsideApp

\* update() binds the render material to rt1, the buffer the pass read
RenderSourceStale == rt1

\* this.renderMaterial.uniforms.uPosition.value = this.rt2.texture
RenderSource == rt2

\* update() without the swap
TargetsKept == <<rt1, rt2>>

\* [this.rt1, this.rt2] = [this.rt2, this.rt1]
TargetsSwapped == <<rt2, rt1>>

\* animate(): requestAnimationFrame, then update()
Update ==
  /\ pc \in {"animate0", "idle"}
  /\ time' = time + Milli(16)
  /\ hoverProgress' = HoverStep(hoverProgress, IF isHovering THEN HoverOne ELSE 0)
  /\ simUPosition' = rt1
  /\ simUIsHovering' = ToFloat32(hoverProgress')
  /\ tex' = [tex EXCEPT ![rt2] = ShaderMain(tex[simUPosition'], particle, time',
                                            simUIsHovering', glslBuild)]
  /\ renderUPosition' = RenderSource
  /\ rt1' = TargetsSwapped[1]
  /\ rt2' = TargetsSwapped[2]
  /\ pc' = IF pc = "animate0" THEN "render0" ELSE "render"
  /\ frame' = frame + 1
  /\ simRead' = simUPosition'
  /\ simWrote' = rt2
  /\ prevWrote' = simWrote
  /\ prevTexel' = tex[simUPosition']
  /\ prevHover' = hoverProgress
  /\ prevUniform' = simUIsHovering
  /\ rampN' = IF ~ isHovering THEN 0
              ELSE IF hoverProgress = 0 THEN 1
              ELSE IF rampN > 0 THEN rampN + 1 ELSE 0
  /\ olderDist' = IF frame >= 1 /\ LifeTime(particle, time) >= Milli(10)
                    THEN PassDist(prevTexel, particle, simUIsHovering)
                    ELSE -1
  /\ olderMove' = IF frame >= 1 /\ LifeTime(particle, time) >= Milli(10)
                    THEN Abs(tex[simWrote].x - prevTexel.x)
                    ELSE -1
  /\ UNCHANGED <<listening, pointerOver, innerWidth, width, height, isHovering,
                 timer, particle, glslBuild, drawCount, drawnTex>>
  /\ UNCHANGED <<rendererSize, eventHistory>>
  /\ UNCHANGED outsideApp

\* animate(): render()
Render ==
  /\ pc \in {"render0", "render"}
  /\ drawCount' = drawCount + 1
  /\ drawnTex' = renderUPosition
  /\ pc' = IF pc = "render0" THEN "timer" ELSE "idle"
  /\ UNCHANGED <<listening, pointerOver, innerWidth, width, height, isHovering,
                 hoverProgress, time, timer, rt1, rt2, tex, simUPosition,
                 simUIsHovering, renderUPosition, particle, glslBuild, frame,
                 simRead, simWrote, prevWrote, prevTexel, prevHover,
                 prevUniform, rampN, olderDist, olderMove>>
  /\ UNCHANGED <<rendererSize, eventHistory>>
  /\ UNCHANGED outsideApp

\* init(): after animate(), the auto-activation timer on narrow viewports
InitTimer ==
  /\ pc = "timer"
  /\ timer' = IF innerWidth <= Breakpoint THEN "armed" ELSE timer
  /\ pc' = "idle"
  /\ UNCHANGED <<listening, pointerOver, innerWidth, width, height, isHovering,
                 hoverProgress, time, rt1, rt2, tex, simUPosition,
                 simUIsHovering, renderUPosition, particle, glslBuild,
                 historyVars>>
  /\ UNCHANGED <<rendererSize, eventHistory>>
  /\ UNCHANGED outsideApp

\* a callback that flips the flag
AutoToggle(flag) == ~ flag

\* this.isHovering = true
AutoActivate(flag) == TRUE

\* the setTimeout callback: this.isHovering = true
TimerFire ==
  /\ pc = "idle"
  /\ timer = "armed"
  /\ isHovering' = AutoActivate(isHovering)
  /\ timer' = "fired"
  /\ Record("timer")
  /\ UNCHANGED rendererSize
  /\ UNCHANGED <<pc, listening, pointerOver, innerWidth, width, height,
                 hoverProgress, time, rt1, rt2, tex, simUPosition,
                 simUIsHovering, renderUPosition, particle, glslBuild,
                 historyVars>>
  /\ UNCHANGED outsideApp

eventRest == <<pc, listening, hoverProgress, time, timer, rt1, rt2, tex,
               simUPosition, simUIsHovering, renderUPosition, particle,
               glslBuild, historyVars>>

\* between two tasks of the page, where handlers and callbacks run
AtRest == pc \in {"loading", "idle", "failed"}

\* a handler that sets the flag
ToggleOn(flag) == TRUE

\* this.isHovering = !this.isHovering
Toggle(flag) == ~ flag

\* container 'mouseenter'
MouseEnter ==
  /\ AtRest
  /\ listening
  /\ ~ pointerOver
  /\ pointerOver' = TRUE
  /\ isHovering' = IF ~ isMobileOrTablet THEN TRUE ELSE isHovering
  /\ Record("mouseenter")
  /\ UNCHANGED rendererSize
  /\ UNCHANGED <<innerWidth, width, height, eventRest>>
  /\ UNCHANGED outsideApp

\* container 'mouseleave'
MouseLeave ==
  /\ AtRest
  /\ listening
  /\ pointerOver
  /\ pointerOver' = FALSE
  /\ isHovering' = IF ~ isMobileOrTablet THEN FALSE ELSE isHovering
  /\ Record("mouseleave")
  /\ UNCHANGED rendererSize
  /\ UNCHANGED <<innerWidth, width, height, eventRest>>
  /\ UNCHANGED outsideApp

\* container 'click'
Click ==
  /\ AtRest
  /\ listening
  /\ isHovering' = IF isMobileOrTablet THEN Toggle(isHovering) ELSE isHovering
  /\ Record("click")
  /\ UNCHANGED rendererSize
  /\ UNCHANGED <<pointerOver, innerWidth, width, height, eventRest>>
  /\ UNCHANGED outsideApp

\* container 'touchend'
TouchEnd ==
  /\ AtRest
  /\ listening
  /\ isHovering' = IF isMobileOrTablet THEN Toggle(isHovering) ELSE isHovering
  /\ Record("touchend")
  /\ UNCHANGED rendererSize
  /\ UNCHANGED <<pointerOver, innerWidth, width, height, eventRest>>
  /\ UNCHANGED outsideApp

\* a resize handler that also starts the simulation over
ResizeRestart ==
  /\ AtRest
  /\ \E w \in InnerWidths, box \in ContainerBoxes :
       /\ innerWidth' = w
       /\ width' = IF listening THEN OrInner(box[1], w) ELSE width
       /\ height' = IF listening THEN OrInner(box[2], InnerHeight) ELSE height
  /\ rendererSize' = IF listening THEN <<width', height'>> ELSE rendererSize
  /\ time' = IF listening THEN 0 ELSE time
  /\ hoverProgress' = IF listening THEN 0 ELSE hoverProgress
  /\ IF listening THEN Record("resize") ELSE UNCHANGED eventHistory
  /\ UNCHANGED <<pointerOver, isHovering, pc, listening, timer, rt1, rt2, tex,
                 simUPosition, simUIsHovering, renderUPosition, particle,
                 glslBuild, historyVars>>
  /\ UNCHANGED outsideApp

\* window 'resize': the viewport changes; the handler, once registered,
\* re-reads the container box and resizes the renderer
Resize ==
  /\ AtRest
  /\ \E w \in InnerWidths, box \in ContainerBoxes :
       /\ innerWidth' = w
       /\ width' = IF listening THEN OrInner(box[1], w) ELSE width
       /\ height' = IF listening THEN OrInner(box[2], InnerHeight) ELSE height
  /\ rendererSize' = IF listening THEN <<width', height'>> ELSE rendererSize
  /\ IF listening THEN Record("resize") ELSE UNCHANGED eventHistory
  /\ UNCHANGED <<pointerOver, isHovering, eventRest>>
  /\ UNCHANGED outsideApp

\* ------------------------------------------------------------------------
\* 3. SILHOUETTE MAPPER
\* ------------------------------------------------------------------------
\* The canvas of loadImage() has the size of the sampler's shape (500 x 500
\* in the source), so the image is ShapeW x ShapeH pixels here.

\* createImagePoints(): const gap = 4
gap == 4

NoImage == << >>

\* red channel values of the decoded pixels
Reds == {0, 127, 128, 255}

\* most dark pixels an image drawn on a white ground has
MaxInk == 2

\* the pixels the scan of createImagePoints() visits
SampledPixels ==
  { p \in DomainPoints : p[1] % gap = 0 /\ p[2] % gap = 0 }

\* ctx.getImageData(): gap x gap blocks of one red value, block by block
BlockImage(block) ==
  [p \in DomainPoints |-> block[<<p[1] - (p[1] % gap), p[2] - (p[2] % gap)>>]]

\* the decoded images: one red value everywhere, or a white ground with up
\* to MaxInk black blocks
Images ==
  { BlockImage([p \in SampledPixels |-> r]) : r \in Reds } \cup
  { BlockImage([p \in SampledPixels |-> IF p \in dark THEN 0 ELSE 255]) :
      dark \in { d \in SUBSET SampledPixels : Cardinality(d) <= MaxInk } }

\* getPixelBrightness(x, y), forgetting the "1 -"
RedLevel(img, x, y) ==
  img[<<Clamp(x, 0, ShapeW - 1), Clamp(y, 0, ShapeH - 1)>>]

\* getPixelBrightness(x, y) in units of 1/255: 1 - r / 255
getPixelBrightness(img, x, y) ==
  255 - img[<<Clamp(x, 0, ShapeW - 1), Clamp(y, 0, ShapeH - 1)>>]

\* the test of createImagePoints() turned round
IsInkBelow(brightness) == 2 * brightness < 255

\* brightness > 0.5
IsInk(brightness) == 2 * brightness > 255

\* the scan of createImagePoints(): for y, for x, both stepping by gap
ScanColumns == (ShapeW - 1) \div gap + 1
ScanRows == (ShapeH - 1) \div gap + 1
ScanOrder ==
  [k \in 1..(ScanColumns * ScanRows) |->
     <<((k - 1) % ScanColumns) * gap, ((k - 1) \div ScanColumns) * gap>>]

\* imagePoints after the scan
InkPoints(img) ==
  SelectSeq(ScanOrder, LAMBDA p : IsInk(getPixelBrightness(img, p[1], p[2])))

\* the radicand of Math.sqrt(...): Math.sqrt is strictly increasing on these
\* integers, so distances compare as their radicands do
distance(imgPoint, basePoint) ==
  Sq(imgPoint[1] - basePoint[1]) + Sq(imgPoint[2] - basePoint[2])

\* let nearestDistance = Infinity
Infinity == Sq(ShapeW) + Sq(ShapeH) + 1

\* a search that starts from the origin
NearestStartOrigin(basePoint) == <<0, 0>>

\* let nearestPoint = basePoint
NearestStart(basePoint) == basePoint

\* a test that also takes an equal distance
CloserOrEqual(d, nearestDistance) == d <= nearestDistance

\* distance < nearestDistance
Closer(d, nearestDistance) == d < nearestDistance

\* the inner loop of createImagePoints() from index j on (1-based)
RECURSIVE NearestFrom(_, _, _, _, _)
NearestFrom(basePoint, imgPoints, j, nearestPoint, nearestDistance) ==
  IF j > Len(imgPoints) THEN nearestPoint
  ELSE IF Closer(distance(imgPoints[j], basePoint), nearestDistance)
       THEN NearestFrom(basePoint, imgPoints, j + 1, imgPoints[j],
                        distance(imgPoints[j], basePoint))
       ELSE NearestFrom(basePoint, imgPoints, j + 1, nearestPoint,
                        nearestDistance)

\* a push at the front of the array
PushFront(s, e) == <<e>> \o s

\* this.targetPoints.push(nearestPoint)
Push(s, e) == Append(s, e)

\* the outer loop of createImagePoints() from index i on (1-based)
RECURSIVE TargetsFrom(_, _, _, _)
TargetsFrom(base, imgPoints, i, targets) ==
  IF i > Len(base) THEN targets
  ELSE TargetsFrom(base, imgPoints, i + 1,
         Push(targets, NearestFrom(base[i], imgPoints, 1,
                                   NearestStart(base[i]), Infinity)))

\* q lies less than maxDistance from p: with ~ TooClose(q, p), q - p is one
\* of the SpawnOffsets
InReach(p, q) == Sq(q[1] - p[1]) + Sq(q[2] - p[2]) < Sq(MaxDistance)

\* the points fill() can add to the accepted points c: spawned from one of
\* them, inside the shape and not too close to any of them
Spawned(c) ==
  { q \in DomainPoints :
      /\ \E k \in 1..Len(c) : InReach(c[k], q)
      /\ \A k \in 1..Len(c) : ~ TooClose(q, c[k]) }

ImageInit ==
  /\ mapPc = "loading"
  /\ imageData = NoImage
  /\ basePoints = << >>
  /\ imagePoints = << >>
  /\ targetPoints = << >>

\* loadImage(): img.onload draws the image and reads its pixels, resolve()
DecodeImage ==
  /\ mapPc = "loading"
  /\ \E img \in Images : imageData' = img
  /\ mapPc' = "decoded"
  /\ UNCHANGED <<basePoints, imagePoints, targetPoints>>
  /\ UNCHANGED outsideImage

\* createBasePoints(): fill() accepts one more point (the first anywhere in
\* the shape); basePoints holds the sampler's points while fill() runs
SamplerAccept ==
  /\ mapPc = "decoded"
  /\ \E q \in (IF basePoints = << >> THEN DomainPoints ELSE Spawned(basePoints)) :
       basePoints' = Append(basePoints, q)
  /\ UNCHANGED <<mapPc, imageData, imagePoints, targetPoints>>
  /\ UNCHANGED outsideImage

\* createBasePoints(): fill() returns, this.basePoints = sampler.fill();
\* every accepted point can be retired, since some candidate of every parent
\* falls outside the shape
CreateBasePoints ==
  /\ mapPc = "decoded"
  /\ basePoints # << >>
  /\ mapPc' = "sampled"
  /\ UNCHANGED <<imageData, basePoints, imagePoints, targetPoints>>
  /\ UNCHANGED outsideImage

\* createImagePoints()
CreateImagePoints ==
  /\ mapPc = "sampled"
  /\ imagePoints' = InkPoints(imageData)
  /\ targetPoints' = TargetsFrom(basePoints, InkPoints(imageData), 1, << >>)
  /\ mapPc' = "mapped"
  /\ UNCHANGED <<imageData, basePoints>>
  /\ UNCHANGED outsideImage

ImageNext ==
  DecodeImage \/ SamplerAccept \/ CreateBasePoints \/ CreateImagePoints

\* ------------------------------------------------------------------------
\* 4. PARTICLE SPRITE
\* ------------------------------------------------------------------------
\* gl_PointCoord runs over the lattice 0..PointUnits in units of
\* 1/PointUnits; twice the offset from (0.5, 0.5) is 2c - PointUnits in the
\* same units, which keeps the centre exact for every PointUnits.

PointUnits == 8

PointCoords == (0..PointUnits) \X (0..PointUnits)

NotShaded == -2
Discarded == -1

\* the fragments of the sprite in raster order
PointCoordAt(k) == <<k % (PointUnits + 1), k \div (PointUnits + 1)>>

\* (2 * length(center))^2 in units of 1/PointUnits^2, center = gl_PointCoord - 0.5
CenterSq(c) == Sq(2 * c[1] - PointUnits) + Sq(2 * c[2] - PointUnits)

\* length(center) in units of 1/Q, rounded down
centerDist ==
  [c \in PointCoords |->
     CHOOSE r \in 0..Q :
       /\ Sq(2 * PointUnits * r) <= CenterSq(c) * Sq(Q)
       /\ Sq(2 * PointUnits * (r + 1)) > CenterSq(c) * Sq(Q)]
CenterDist(c) == centerDist[c]

\* a test against the whole sprite size
BeyondOne(c) == CenterSq(c) > Sq(2 * PointUnits)

\* dist > 0.5
BeyondHalf(c) == CenterSq(c) > Sq(PointUnits)

\* GLSL mix(a, b, t), t in units of 1/Q
mixQ(a, b, t) == a + RoundDiv((b - a) * t, Q)

\* the particle fragment shader's main(): Discarded, or the alpha of
\* gl_FragColor in units of 1/Q
FragmentMain(c, scale, velocity, u, build) ==
  IF BeyondHalf(c) THEN Discarded
  ELSE LET alpha == RoundDiv(smoothstep(build, Milli(500), Milli(400),
                                        CenterDist(c)) * scale, Q)
           isShapeParticle == smoothstep(build, Milli(100), Milli(500), velocity)
           particleAlpha == mixQ(Milli(300),
                                 mixQ(Milli(300), Q, isShapeParticle), u)
       IN RoundDiv(RoundDiv(alpha * Milli(900), Q) * particleAlpha, Q)

\* the varyings and the uniform one sprite is drawn with
SpriteInitWith(scales, velocities, hovers) ==
  /\ vScale \in scales
  /\ vVelocity \in velocities
  /\ uIsHovering \in hovers
  /\ fragIndex = 0
  /\ framebuffer = [c \in PointCoords |-> NotShaded]

\* no sprite is being drawn
SpriteIdle == SpriteInitWith({0}, {0}, {0})

SpriteInit == SpriteInitWith({0, Q \div 2, Q}, {0, Milli(300), Q}, {0, Q})

\* the rasterizer runs main() for the next fragment of the sprite
ShadeFragment ==
  /\ fragIndex < Cardinality(PointCoords)
  /\ framebuffer' =
       [framebuffer EXCEPT ![PointCoordAt(fragIndex)] =
          FragmentMain(PointCoordAt(fragIndex), vScale, vVelocity,
                       uIsHovering, glslBuild)]
  /\ fragIndex' = fragIndex + 1
  /\ UNCHANGED <<vScale, vVelocity, uIsHovering>>
  /\ UNCHANGED outsideSprite

\* ------------------------------------------------------------------------
\* 5. DATA TEXTURES
\* ------------------------------------------------------------------------

\* this.size: the side of every data texture, in texels
TexSize == 3
size == TexSize

\* Math.random() of data[idx + 2], in units of 1/Q
Seeds == {0, Q \div 2}

\* (point - 250) / 250 for the shape's extent 500, in units of 1/Q
PosCoord(v, extent) == RoundDiv((2 * v - extent) * Q, extent)

\* the four floats createDataTexture stores for a point
TexelOf(point, seed) ==
  <<PosCoord(point[1], ShapeW), PosCoord(point[2], ShapeH), seed, 0>>

\* the uv of index i, with the column and the row exchanged
UvTransposed(i) == <<i \div size, i % size>>

\* u = (i % size) / size, v = floor(i / size) / size, as numerators over size
UvOf(i) == <<i % size, i \div size>>

\* the texel a NearestFilter lookup at uv addresses: <<column, row>>
NearestTexel(uv) ==
  <<Clamp((uv[1] * size) \div size, 0, size - 1),
    Clamp((uv[2] * size) \div size, 0, size - 1)>>

\* offset of the first float of texel <<column, row>> in a row-major RGBA array
TexelOffset(texel) == 4 * (texel[2] * size + texel[1])

\* texture2D(texture, uv) on the DataTexture built from the array d
texture2D(d, uv) ==
  [k \in 1..4 |-> d[TexelOffset(NearestTexel(uv)) + k - 1]]

\* this.particleCount
particleCount == Len(basePoints)

TextureInitWith(targets) ==
  /\ texPc = "data"
  /\ isTarget \in targets
  /\ loopIndex = 0
  /\ data = [k \in 0..(4 * size * size - 1) |-> 0]
  /\ uvs = << >>

TextureIdle == TextureInitWith({FALSE})

TextureInit == TextureInitWith(BOOLEAN)

\* createDataTexture(): one iteration of the for loop; a store past the end
\* of the typed array is dropped
WriteTexel ==
  /\ mapPc = "mapped"
  /\ texPc = "data"
  /\ loopIndex < particleCount
  /\ \E seed \in Seeds :
       LET point == IF isTarget THEN targetPoints[loopIndex + 1]
                                ELSE basePoints[loopIndex + 1]
           idx == loopIndex * 4
           texel == TexelOf(point, seed)
       IN data' = [k \in DOMAIN data |->
                     IF k \in idx..(idx + 3) THEN texel[k - idx + 1] ELSE data[k]]
  /\ loopIndex' = IF loopIndex + 1 < particleCount THEN loopIndex + 1 ELSE 0
  /\ texPc' = IF loopIndex + 1 < particleCount THEN "data" ELSE "uvs"
  /\ UNCHANGED <<isTarget, uvs>>
  /\ UNCHANGED outsideTexture

\* createParticles(): one iteration of the for loop
WriteUv ==
  /\ texPc = "uvs"
  /\ loopIndex < particleCount
  /\ uvs' = Append(uvs, UvOf(loopIndex))
  /\ loopIndex' = IF loopIndex + 1 < particleCount THEN loopIndex + 1 ELSE 0
  /\ texPc' = IF loopIndex + 1 < particleCount THEN "uvs" ELSE "done"
  /\ UNCHANGED <<isTarget, data>>
  /\ UNCHANGED outsideTexture

\* the decoded image the textures are built for: two dark blocks on white
InkedImage ==
  BlockImage([p \in SampledPixels |->
                IF p \in {<<0, 0>>, <<gap, gap>>} THEN 0 ELSE 255])

TextureNext ==
  \/ SamplerAccept
  \/ CreateBasePoints
  \/ CreateImagePoints
  \/ WriteTexel
  \/ WriteUv

\* ------------------------------------------------------------------------
\* 6. CONTACT FORM
\* ------------------------------------------------------------------------

\* most submit events handled in one run
MaxSubmits == 2

\* strings are sequences of characters
Whitespace == {" "}

\* String.prototype.trim()
RECURSIVE TrimStart(_)
TrimStart(s) ==
  IF s # << >> /\ Head(s) \in Whitespace THEN TrimStart(Tail(s)) ELSE s

RECURSIVE TrimEnd(_)
TrimEnd(s) ==
  IF s # << >> /\ s[Len(s)] \in Whitespace
    THEN TrimEnd(SubSeq(s, 1, Len(s) - 1))
    ELSE s

trim(s) == TrimEnd(TrimStart(s))

\* [^\s@]+ matches the whole of s
Plain(s) ==
  /\ s # << >>
  /\ \A k \in 1..Len(s) : s[k] \notin Whitespace /\ s[k] # "@"

\* /^[^\s@]+@[^\s@]+\.[^\s@]+$/.test(email)
isValidEmail(email) ==
  \E i, j \in 1..Len(email) :
    /\ i < j
    /\ email[i] = "@"
    /\ email[j] = "."
    /\ Plain(SubSeq(email, 1, i - 1))
    /\ Plain(SubSeq(email, i + 1, j - 1))
    /\ Plain(SubSeq(email, j + 1, Len(email)))

\* the shortest trimmed name and message validateForm accepts
NameMin == 2
MessageMin == 10

\* a validation that lets everything through
validateNothing(d) == << >>

\* validateForm(data): the error messages, in the order they are pushed
validateForm(d) ==
  (IF d.name = << >> \/ Len(trim(d.name)) < NameMin
     THEN <<"Please enter your full name">> ELSE << >>)
  \o (IF d.email = << >> \/ ~ isValidEmail(d.email)
        THEN <<"Please enter a valid email address">> ELSE << >>)
  \o (IF d.service = << >>
        THEN <<"Please select a service">> ELSE << >>)
  \o (IF d.message = << >> \/ Len(trim(d.message)) < MessageMin
        THEN <<"Please tell us more about your project">> ELSE << >>)

\* a string of n letters
Letters(n) == [k \in 1..n |-> "a"]

\* what the user may have typed when the form is submitted
Names == {<< >>, <<"a">>, <<" ", "a", " ">>, <<"a", "b">>, <<"a", " ", "b">>}
Emails ==
  {<< >>, <<"a", "@", "b", ".", "c">>, <<"a", "@", "b">>, <<"@", "b", ".", "c">>,
   <<"a", " ", "@", "b", ".", "c">>, <<"a", "@", "b", ".">>,
   <<"a", "@", "b", ".", "c", ".", "d">>, <<"a", "@", "@", "b", ".", "c">>}
Services == {<< >>, <<"w", "e", "b">>}
Messages ==
  {<< >>, Letters(MessageMin - 1), Letters(MessageMin),
   <<" ">> \o Letters(MessageMin - 1) \o <<" ">>,
   Letters(MessageMin - 5) \o <<" ">> \o Letters(4)}

FormDatas ==
  [name : Names, email : Emails, service : Services, message : Messages]

NoData == [name |-> << >>, email |-> << >>, service |-> << >>, message |-> << >>]

\* the responses the endpoint may give: status and whether the body is JSON
Responses == [status : {200, 500}, parsable : BOOLEAN]
NoResponse == [status |-> 0, parsable |-> FALSE]

\* the three contents the button takes
NoAttr == "none"
Original == "original markup"
Loading == "loading-container"
Thanks == "Thanks for applying"

FormInit ==
  /\ formPc = "idle"
  /\ apiRequest = "none"
  /\ minAnimationTime = "none"
  /\ response = NoResponse
  /\ btnDisabled = FALSE
  /\ btnContent = Original
  /\ btnClasses = {}
  /\ originalContent = NoAttr
  /\ formData = NoData
  /\ errors = << >>
  /\ submits = 0
  /\ requests = 0
  /\ alerts = 0

\* the .catch callback: alert, then the button is put back
CatchBody ==
  /\ alerts' = alerts + 1
  /\ btnClasses' = btnClasses \ {"loading"}
  /\ btnContent' = originalContent
  /\ btnDisabled' = FALSE
  /\ formPc' = "idle"

\* the form's 'submit' handler, up to Promise.all(...).then(...).catch(...);
\* a disabled submit button blocks the user's submission
Submit ==
  /\ ~ btnDisabled
  /\ \E d \in FormDatas :
       /\ formData' = d
       /\ errors' = validateForm(d)
  /\ submits' = submits + 1
  /\ IF Len(errors') > 0
       THEN /\ alerts' = alerts + 1
            /\ UNCHANGED <<formPc, apiRequest, minAnimationTime, response,
                           btnDisabled, btnContent, btnClasses, originalContent,
                           requests>>
       ELSE /\ originalContent' = IF originalContent = NoAttr THEN btnContent
                                                               ELSE originalContent
            /\ btnClasses' = btnClasses \cup {"loading"}
            /\ btnContent' = Loading
            /\ btnDisabled' = TRUE
            /\ minAnimationTime' = "pending"
            /\ apiRequest' = "pending"
            /\ requests' = requests + 1
            /\ response' = NoResponse
            /\ formPc' = "waiting"
            /\ UNCHANGED alerts
  /\ UNCHANGED outsideForm

\* the fetch promise resolves with a Response; with the 1000 ms promise
\* resolved too the .then callback starts and awaits response.json()
FetchFulfil ==
  /\ apiRequest = "pending"
  /\ apiRequest' = "fulfilled"
  /\ \E r \in Responses : response' = r
  /\ formPc' = IF minAnimationTime = "resolved" THEN "parsing" ELSE formPc
  /\ UNCHANGED <<minAnimationTime, btnDisabled, btnContent, btnClasses,
                 originalContent, formData, errors, submits, requests, alerts>>
  /\ UNCHANGED outsideForm

\* the fetch promise rejects: Promise.all rejects at once, .catch runs
FetchReject ==
  /\ apiRequest = "pending"
  /\ apiRequest' = "rejected"
  /\ CatchBody
  /\ UNCHANGED <<minAnimationTime, response, originalContent, formData, errors,
                 submits, requests>>
  /\ UNCHANGED outsideForm

\* the 1000 ms timer fires
MinTimerFire ==
  /\ minAnimationTime = "pending"
  /\ minAnimationTime' = "resolved"
  /\ formPc' = IF formPc = "waiting" /\ apiRequest = "fulfilled"
                 THEN "parsing" ELSE formPc
  /\ UNCHANGED <<apiRequest, response, btnDisabled, btnContent, btnClasses,
                 originalContent, formData, errors, submits, requests, alerts>>
  /\ UNCHANGED outsideForm

\* response.json() settles and the .then callback goes on: success on
\* status 200, otherwise (or with a body that does not parse) a throw into
\* .catch
JsonSettle ==
  /\ formPc = "parsing"
  /\ IF response.parsable /\ response.status = 200
       THEN /\ btnClasses' = (btnClasses \ {"loading"}) \cup {"success"}
            /\ btnContent' = Thanks
            /\ formPc' = "success"
            /\ UNCHANGED <<btnDisabled, alerts>>
       ELSE CatchBody
  /\ UNCHANGED <<apiRequest, minAnimationTime, response, originalContent, formData,
                 errors, submits, requests>>
  /\ UNCHANGED outsideForm

\* the 3000 ms timer of the success branch fires
RestoreTimerFire ==
  /\ formPc = "success"
  /\ btnClasses' = btnClasses \ {"success"}
  /\ btnContent' = originalContent
  /\ btnDisabled' = FALSE
  /\ formPc' = "idle"
  /\ UNCHANGED <<apiRequest, minAnimationTime, response, originalContent, formData,
                 errors, submits, requests, alerts>>
  /\ UNCHANGED outsideForm

FormNext ==
  \/ (submits < MaxSubmits /\ Submit)
  \/ FetchFulfil
  \/ FetchReject
  \/ MinTimerFire
  \/ JsonSettle
  \/ RestoreTimerFire

\* ------------------------------------------------------------------------
\* 7. PROJECTS LOADER
\* ------------------------------------------------------------------------

\* most calls of loadProjects in one run
MaxCalls == 3

\* JavaScript values: null, an array of project ids, a result not yet there
Null == [kind |-> "null", items |-> << >>]
NoResult == [kind |-> "pending", items |-> << >>]
Array(items) == [kind |-> "array", items |-> items]
EmptyArray == Array(<< >>)

\* what data/projects.json may parse to: not JSON at all, or an object
\* whose projects member is an array
Unparsable == [parsable |-> FALSE, projects |-> Null]
Bodies ==
  {Unparsable,
   [parsable |-> TRUE, projects |-> Array(<< >>)],
   [parsable |-> TRUE, projects |-> Array(<<"alpha", "beta">>)]}

\* if (projectsCache): null is falsy, every array is truthy
Truthy(v) == v.kind # "null"

NoCall == [pc |-> "none", result |-> NoResult]

\* loadProjects() up to its first await: a truthy cache is returned at once,
\* otherwise the fetch is issued
StartCall(cache) ==
  IF Truthy(cache) THEN [pc |-> "done", result |-> cache]
                   ELSE [pc |-> "fetching", result |-> NoResult]

\* 1 if a call started with this cache issues a fetch
FetchesOf(cache) == IF Truthy(cache) THEN 0 ELSE 1

LoaderInitWith(grids, studies) ==
  /\ page = "start"
  /\ hasGrid \in grids
  /\ hasStudy \in studies
  /\ projectsCache = Null
  /\ calls = [k \in 1..MaxCalls |-> NoCall]
  /\ started = 0
  /\ fetches = 0
  /\ failures = 0

LoaderIdle == LoaderInitWith({FALSE}, {FALSE})

LoaderInit == LoaderInitWith(BOOLEAN, BOOLEAN)

\* autoInit(): renderProjectGrid() and renderCaseStudy() are called one after
\* the other; each runs to its first await, inside loadProjects()
AutoInit ==
  /\ page = "start"
  /\ page' = "ready"
  /\ LET n == (IF hasGrid THEN 1 ELSE 0) + (IF hasStudy THEN 1 ELSE 0)
     IN /\ calls' = [k \in 1..MaxCalls |->
                       IF k <= n THEN StartCall(projectsCache) ELSE calls[k]]
        /\ started' = n
        /\ fetches' = fetches + n * FetchesOf(projectsCache)
  /\ UNCHANGED <<hasGrid, hasStudy, projectsCache, failures>>
  /\ UNCHANGED outsideLoader

\* a later call: getProjectNav() from setupProjectNav(), window.loadProjects()
LaterCall ==
  /\ page = "ready"
  /\ started < MaxCalls
  /\ calls' = [calls EXCEPT ![started + 1] = StartCall(projectsCache)]
  /\ started' = started + 1
  /\ fetches' = fetches + FetchesOf(projectsCache)
  /\ UNCHANGED <<page, hasGrid, hasStudy, projectsCache, failures>>
  /\ UNCHANGED outsideLoader

\* await fetch(..) settles: an ok response goes on to response.json(); a
\* response that is not ok throws and a rejection lands in catch: return []
FetchSettle ==
  /\ \E k \in 1..MaxCalls :
       /\ calls[k].pc = "fetching"
       /\ \E outcome \in {"ok", "not ok", "rejected"} :
            IF outcome = "ok"
              THEN /\ calls' = [calls EXCEPT ![k].pc = "parsing"]
                   /\ UNCHANGED failures
              ELSE /\ calls' = [calls EXCEPT ![k] =
                                  [pc |-> "done", result |-> EmptyArray]]
                   /\ failures' = failures + 1
  /\ UNCHANGED <<page, hasGrid, hasStudy, projectsCache, started, fetches>>
  /\ UNCHANGED outsideLoader

\* await response.json() settles: projectsCache = data.projects and return
\* it, or the catch block: return []
JsonParsed ==
  /\ \E k \in 1..MaxCalls :
       /\ calls[k].pc = "parsing"
       /\ \E body \in Bodies :
            IF ~ body.parsable
              THEN /\ calls' = [calls EXCEPT ![k] =
                                  [pc |-> "done", result |-> EmptyArray]]
                   /\ failures' = failures + 1
                   /\ UNCHANGED projectsCache
              ELSE /\ projectsCache' = body.projects
                   /\ calls' = [calls EXCEPT ![k] =
                                  [pc |-> "done", result |-> body.projects]]
                   /\ UNCHANGED failures
  /\ UNCHANGED <<page, hasGrid, hasStudy, started, fetches>>
  /\ UNCHANGED outsideLoader

LoaderNext == AutoInit \/ LaterCall \/ FetchSettle \/ JsonParsed

\* ------------------------------------------------------------------------
\* 9. SPECIFICATIONS
\* ------------------------------------------------------------------------

Init == AppInit /\ FillInit /\ ImageInit /\ SpriteIdle /\ TextureIdle /\ FormInit /\ LoaderIdle

Next ==
  \/ LoadImageOk(SpecParticles)
  \/ LoadImageError
  \/ (frame < MaxFrames /\ Update)
  \/ Render
  \/ InitTimer
  \/ TimerFire
  \/ (events < MaxEvents /\ MouseEnter)
  \/ (events < MaxEvents /\ MouseLeave)
  \/ (events < MaxEvents /\ Click)
  \/ (events < MaxEvents /\ TouchEnd)
  \/ (events < MaxEvents /\ Resize)

\* one instance from construction on: events and frames interleave
Spec == Init /\ [][Next]_vars

\* the frame loop over many frames with no user input: on a narrow viewport
\* the timer raises the hover flag and it stays raised
SimInit ==
  /\ AppInitWith(InnerWidths, {<<0, 0>>}, {"formula", "compare"})
  /\ pointerOver = FALSE
  /\ FillInit
  /\ ImageInit
  /\ SpriteIdle
  /\ TextureIdle
  /\ FormInit
  /\ LoaderIdle

SimNext ==
  \/ LoadImageOk(SimParticles)
  \/ (frame < MaxSimFrames /\ Update)
  \/ Render
  \/ InitTimer
  \/ TimerFire

SpecSim == SimInit /\ [][SimNext]_vars

\* the frame loop on a wide viewport, for particles near the end of a lifetime
LifeInit ==
  /\ AppInitWith({Breakpoint + 1}, {<<0, 0>>}, {"formula", "compare"})
  /\ pointerOver = FALSE
  /\ FillInit
  /\ ImageInit
  /\ SpriteIdle
  /\ TextureIdle
  /\ FormInit
  /\ LoaderIdle

LifeNext ==
  \/ LoadImageOk(LifeParticles)
  \/ (frame < MaxLifeFrames /\ Update)
  \/ Render
  \/ InitTimer

SpecLife == LifeInit /\ [][LifeNext]_vars

\* the contact form alone
SpecFormInit ==
  /\ AppInitWith({Breakpoint}, {<<0, 0>>}, {"formula"})
  /\ pointerOver = FALSE
  /\ FillInit
  /\ ImageInit
  /\ SpriteIdle
  /\ TextureIdle
  /\ FormInit
  /\ LoaderIdle

SpecForm == SpecFormInit /\ [][FormNext]_vars

\* the request settles, response.json() settles and the timers fire
FairSpecForm ==
  /\ SpecForm
  /\ WF_vars(FetchFulfil \/ FetchReject)
  /\ WF_vars(MinTimerFire)
  /\ WF_vars(JsonSettle)
  /\ WF_vars(RestoreTimerFire)

\* the projects loader alone, on a page with either renderer or both
SpecLoaderInit ==
  /\ AppInitWith({Breakpoint}, {<<0, 0>>}, {"formula"})
  /\ pointerOver = FALSE
  /\ FillInit
  /\ ImageInit
  /\ SpriteIdle
  /\ TextureIdle
  /\ FormInit
  /\ LoaderInit

SpecLoader == SpecLoaderInit /\ [][LoaderNext]_vars

\* the sampler alone, as createBasePoints() runs it to its end
SpecFillInit ==
  /\ AppInitWith({Breakpoint}, {<<0, 0>>}, {"formula"})
  /\ pointerOver = FALSE
  /\ FillInit
  /\ ImageInit
  /\ SpriteIdle
  /\ TextureIdle
  /\ FormInit
  /\ LoaderIdle

SpecFill == SpecFillInit /\ [][FillNext]_vars

\* fill() is a synchronous loop: it keeps running until it returns.
FairSpecFill == SpecFill /\ WF_vars(FillNext)

\* init() from loadImage() to the end of createImagePoints()
SpecImage == SpecFillInit /\ [][ImageNext]_vars

\* one sprite rasterized under either GLSL build
SpecSpriteInit ==
  /\ AppInitWith({Breakpoint}, {<<0, 0>>}, {"formula", "compare"})
  /\ pointerOver = FALSE
  /\ FillInit
  /\ ImageInit
  /\ SpriteInit
  /\ TextureIdle
  /\ FormInit
  /\ LoaderIdle

SpecSprite == SpecSpriteInit /\ [][ShadeFragment]_vars

\* one data texture and the uv attribute built after the image was decoded
SpecTextureInit ==
  /\ AppInitWith({Breakpoint}, {<<0, 0>>}, {"formula"})
  /\ pointerOver = FALSE
  /\ FillInit
  /\ mapPc = "decoded"
  /\ imageData = InkedImage
  /\ basePoints = << >>
  /\ imagePoints = << >>
  /\ targetPoints = << >>
  /\ SpriteIdle
  /\ TextureInit
  /\ FormInit
  /\ LoaderIdle

SpecTexture == SpecTextureInit /\ [][TextureNext]_vars

PointSet == {points[i] : i \in 1..Len(points)}

\* C1: at every moment of fill() (so after every addPoint and at the return),
\* any two distinct accepted points are at Euclidean distance >= minDistance.
C1_PairwiseApart ==
  \A i, j \in 1..Len(points) :
    i # j => Sq(points[i][1] - points[j][1]) + Sq(points[i][2] - points[j][2])
               >= Sq(MinDistance)

\* C1 witness: fill() has returned at least three points, one of them spawned
\* two cells away from an accepted point.
C1_Witness ==
  /\ fillPc = "done"
  /\ Len(points) >= 3
  /\ \E i, j \in 1..Len(points) :
       CellFloor(points[i][1]) + 2 = CellFloor(points[j][1])

\* C2: every accepted point lies in [0,W) x [0,H) and its cell index lies in
\* the acceptance grid.
C2_PointsInDomain ==
  \A i \in 1..Len(points) :
    /\ 0 <= points[i][1] /\ points[i][1] < ShapeW
    /\ 0 <= points[i][2] /\ points[i][2] < ShapeH
    /\ 0 <= CellFloor(points[i][1]) /\ CellFloor(points[i][1]) < gridWidth
    /\ 0 <= CellFloor(points[i][2]) /\ CellFloor(points[i][2]) < gridHeight

\* C2 witness: a spawned point sits in the last column and the last row of
\* the domain.
C2_Witness ==
  /\ Len(points) >= 2
  /\ \E i \in 2..Len(points) :
       points[i][1] = ShapeW - 1 /\ points[i][2] = ShapeH - 1

\* C3: fill() terminates whatever the random choices: the frontier becomes
\* empty and fill() returns; the accepted points never outnumber the cells.
C3_FillTerminates ==
  /\ [](Len(points) <= gridWidth * gridHeight)
  /\ <>(fillPc = "done")

\* C3 witness: fill() returned after accepting several points and retiring
\* each of them.
C3_Witness ==
  /\ fillPc = "done"
  /\ Len(activeList) = 0
  /\ Len(points) >= 3

\* C4 (as claimed): when fill() returns, no location of the domain is at
\* distance >= minDistance from every accepted point.
C4_Maximal ==
  fillPc = "done" =>
    ~ \E q \in DomainPoints : \A p \in PointSet : ~ TooClose(q, p)

\* C4 (amended): when fill() returns, the frontier is empty and every accepted
\* point was retired by a round of maxTries rejected candidates; and a point
\* leaves the frontier only in that way.
C4_FrontierExhausted ==
  /\ fillPc = "done" => (Len(activeList) = 0 /\ exhausted = PointSet)
  /\ PointSet = exhausted \cup {activeList[i] : i \in 1..Len(activeList)}
  /\ \A i \in 1..Len(activeList) : activeList[i] \notin exhausted

\* C4 witness: fill() returned several points and free room remains.
C4_Witness ==
  /\ fillPc = "done"
  /\ Len(points) >= 2
  /\ \E q \in DomainPoints : \A p \in PointSet : ~ TooClose(q, p)


\* ---- the frame loop: ping-pong buffers ----

\* C5: in every frame the simulation pass reads one render target and writes
\* the other, and from the second frame on it reads exactly the buffer the
\* pass of the frame before wrote.
C5_PingPong ==
  /\ frame >= 1 =>
       /\ simRead = simUPosition
       /\ simRead \in {"A", "B"} /\ simWrote \in {"A", "B"}
       /\ simRead # simWrote
  /\ frame >= 2 => simRead = prevWrote

\* C5 witness: the third frame has run and read what the second wrote.
C5_Witness == frame = 3 /\ simRead = "A" /\ prevWrote = "A" /\ simWrote = "B"

\* C6: update() of a frame is complete when render() of that frame draws,
\* render() samples the buffer that frame's simulation pass wrote, and that
\* buffer is not the one the next pass will write.
C6_DrawsFreshBuffer ==
  /\ pc \in {"render0", "render"} =>
       /\ drawCount = frame - 1
       /\ renderUPosition = simWrote
       /\ renderUPosition # rt2
  /\ pc \in {"timer", "idle"} =>
       /\ drawCount = frame
       /\ frame >= 1 => (drawnTex = simWrote /\ drawnTex # rt2)
  /\ pc \in {"loading", "failed", "animate0"} => (drawCount = 0 /\ frame = 0)

\* C6 witness: three frames were simulated and drawn, the last from B.
C6_Witness == pc = "idle" /\ drawCount = 3 /\ frame = 3 /\ drawnTex = "B"

\* ---- the simulation shader ----

LastDist == Abs(particle.tgt - tex[simWrote].x)
PrevDist == Abs(particle.tgt - prevTexel.x)
LastReborn ==
  (particle.seedPhase + time \div 2) % particle.lifeEnd < Milli(10)

\* C7: a pass whose lifeTime is below 0.01 writes the reference position and
\* scale 0, whatever the texel it read and whatever the hover intensity.
C7_Rebirth ==
  (frame >= 1 /\ LastReborn) =>
    (tex[simWrote].x = particle.ref /\ tex[simWrote].scale = 0)

\* C7 witness: a rebirth of a particle that was away from its reference
\* position with a positive scale, while the hover intensity is positive.
C7_Witness ==
  /\ frame >= 1 /\ LastReborn
  /\ prevTexel.x # particle.ref
  /\ prevTexel.scale > 0
  /\ simUIsHovering > 0

\* h = 1 in the last pass and in the pass before
Sustained ==
  frame >= 2 /\ simUIsHovering = UniformOne /\ prevUniform = UniformOne

\* C8 (as claimed): under sustained h = 1 the distance of the particle to its
\* target never increases from one frame to the next (and so converges).
C8_MonotoneToTarget == Sustained => LastDist <= PrevDist

\* C8 (amended): under sustained h = 1, in a frame without rebirth the
\* distance to the target does not increase, it decreases strictly whenever
\* the particle moves, and a particle within 0.005 of the target stays put;
\* where the build evaluates smoothstep(0.15, 0.001, d) by its formula, the
\* velocity written at distance <= 0.001 is 1.
C8_NoRetreatBetweenRebirths ==
  (Sustained /\ ~ LastReborn) =>
    /\ LastDist <= PrevDist
    /\ tex[simWrote].x # prevTexel.x => LastDist < PrevDist
    /\ PrevDist <= Milli(5) => tex[simWrote].x = prevTexel.x
    /\ (glslBuild = "formula" /\ PrevDist <= Milli(1)) =>
         tex[simWrote].velocity = Q

\* C8 witness: under sustained h = 1 a particle steps to within 0.005 of its
\* target.
C8_Witness ==
  /\ Sustained /\ ~ LastReborn
  /\ PrevDist > Milli(5)
  /\ LastDist <= Milli(5)

\* C9 (the target scale): smoothstep rise minus smoothstep fall is in [0, 1]
\* for every lifeTime in [0, lifeEnd), lifeEnd in [2, 4].
TargetScaleInRange ==
  \A le \in {Milli(2000), Milli(2500), Milli(3000), Milli(4000)} :
    \A lt \in 0..(le - 1) :
      /\ TargetScale("formula", lt, le) \in 0..Q
      /\ TargetScale("compare", lt, le) \in 0..Q

\* C9: in every texture, after any number of frames and for every hover
\* intensity reached, scale and velocity lie in [0, 1]; so does the target
\* scale.
C9_ScaleVelocityInRange ==
  /\ \A t \in TexIds :
       /\ tex[t].scale \in 0..Q
       /\ tex[t].velocity \in 0..Q
  /\ simUIsHovering \in 0..UniformOne
  /\ TargetScaleInRange

\* C9 witness: a texel written with scale and velocity strictly inside (0, 1)
\* and, frames later, one with velocity 1.
C9_Witness ==
  /\ frame >= 10
  /\ tex[simWrote].scale > 0 /\ tex[simWrote].scale < Q
  /\ tex[simWrote].velocity = Q
  /\ prevTexel.velocity > 0 /\ prevTexel.velocity < Q

\* ---- the hover controller ----

InkPixels == { p \in SampledPixels : 2 * (255 - imageData[p]) > 255 }

\* the pixels createImagePoints() collected
ImagePointSet == { imagePoints[j] : j \in 1..Len(imagePoints) }

\* t is an assignment for b: b itself when nothing was collected, else a
\* collected pixel at the least distance from b
IsAssignment(t, b) ==
  IF ImagePointSet = {} THEN t = b
  ELSE /\ t \in ImagePointSet
       /\ \A q \in ImagePointSet : distance(t, b) <= distance(q, b)

\* C11: after createImagePoints(), targetPoints is as long as basePoints and
\* targetPoints[i] is the assignment of basePoints[i], index by index, for
\* every image.
C11_SameLengthAndOrder ==
  mapPc = "mapped" =>
    /\ Len(targetPoints) = Len(basePoints)
    /\ \A i \in 1..Len(basePoints) : IsAssignment(targetPoints[i], basePoints[i])

\* C11 witness: three base points mapped to pixels of the image, the first
\* two to different pixels, so that a change of order would show.
C11_Witness ==
  /\ mapPc = "mapped"
  /\ Len(basePoints) >= 3
  /\ Len(targetPoints) = Len(basePoints)
  /\ targetPoints[1] \in ImagePointSet
  /\ targetPoints[1] # targetPoints[2]
  /\ ~ IsAssignment(targetPoints[1], basePoints[2])

\* C12: when no sampled pixel has brightness 1 - red/255 above 0.5, every
\* targetPoints[i] equals basePoints[i].
C12_NoInkKeepsBase ==
  (mapPc = "mapped" /\ InkPixels = {}) => targetPoints = basePoints

\* C12 witness: an image just at the bright side of the threshold (red 128)
\* was mapped for several base points, none of them the origin.
C12_Witness ==
  /\ mapPc = "mapped"
  /\ \A p \in DomainPoints : imageData[p] = 128
  /\ Len(basePoints) >= 2
  /\ \A i \in 1..Len(basePoints) : basePoints[i] # <<0, 0>>
  /\ targetPoints = basePoints

AllBlack == \A p \in DomainPoints : imageData[p] = 0
AllWhite == \A p \in DomainPoints : imageData[p] = 255

\* C13 (as claimed): for an all-black image no pixel exceeds the ink
\* threshold and every target point equals its base point.
C13_BlackFallsBack ==
  (mapPc = "mapped" /\ AllBlack) =>
    /\ imagePoints = << >>
    /\ targetPoints = basePoints

\* C13 (amended): for an all-black image every sampled pixel exceeds the ink
\* threshold (brightness 1 - 0/255 = 1), and every target point is a sampled
\* pixel at the least distance from its base point.
C13_BlackIsAllInk ==
  (mapPc = "mapped" /\ AllBlack) =>
    /\ ImagePointSet = SampledPixels
    /\ Len(imagePoints) = Cardinality(SampledPixels)
    /\ \A i \in 1..Len(basePoints) :
         /\ targetPoints[i] \in SampledPixels
         /\ \A q \in SampledPixels :
              distance(targetPoints[i], basePoints[i]) <= distance(q, basePoints[i])

\* C13 witness: an all-black image was mapped and moved a base point that
\* is no sampled pixel onto one.
C13_Witness ==
  /\ mapPc = "mapped"
  /\ AllBlack
  /\ Len(basePoints) >= 2
  /\ basePoints[1] \notin SampledPixels
  /\ targetPoints[1] \in SampledPixels

\* C14 (as claimed): for an all-white image the ink set is the full grid of
\* pixels stepped by gap, and every target is a grid pixel within one grid
\* step of its base point.
C14_WhiteIsAllInk ==
  (mapPc = "mapped" /\ AllWhite) =>
    /\ ImagePointSet = SampledPixels
    /\ \A i \in 1..Len(basePoints) :
         /\ targetPoints[i] \in SampledPixels
         /\ Abs(targetPoints[i][1] - basePoints[i][1]) <= gap
         /\ Abs(targetPoints[i][2] - basePoints[i][2]) <= gap

\* C14 (amended): for an all-white image (brightness 1 - 255/255 = 0) the ink
\* set is empty, and every base point's target is the base point itself.
C14_WhiteFallsBack ==
  (mapPc = "mapped" /\ AllWhite) =>
    /\ imagePoints = << >>
    /\ Len(targetPoints) = Len(basePoints)
    /\ \A i \in 1..Len(basePoints) : targetPoints[i] = basePoints[i]

\* C14 witness: an all-white image was mapped and left a base point that is
\* no grid pixel where it was.
C14_Witness ==
  /\ mapPc = "mapped"
  /\ AllWhite
  /\ Len(basePoints) >= 2
  /\ targetPoints[2] = basePoints[2]
  /\ basePoints[2] \notin SampledPixels

\* p comes no later than q in the scan: row by row, x ascending
ScansFirst(p, q) == p[2] < q[2] \/ (p[2] = q[2] /\ p[1] <= q[1])

\* C15: when the ink set is not empty, every targetPoints[i] is an ink pixel,
\* no ink pixel is strictly closer to basePoints[i], and among the ink
\* pixels at the same distance it is the first in scan order.
C15_NearestFirstInScan ==
  (mapPc = "mapped" /\ InkPixels # {}) =>
    \A i \in 1..Len(basePoints) :
      /\ targetPoints[i] \in InkPixels
      /\ \A q \in InkPixels :
           /\ distance(targetPoints[i], basePoints[i]) <= distance(q, basePoints[i])
           /\ distance(q, basePoints[i]) = distance(targetPoints[i], basePoints[i])
                => ScansFirst(targetPoints[i], q)

\* C15 witness: a base point has two nearest ink pixels at the same distance
\* and a farther one, and got the one scanned first.
C15_Witness ==
  /\ mapPc = "mapped"
  /\ \E i \in 1..Len(basePoints) : \E q, f \in InkPixels :
       /\ q # targetPoints[i]
       /\ targetPoints[i] \in InkPixels
       /\ distance(q, basePoints[i]) = distance(targetPoints[i], basePoints[i])
       /\ distance(f, basePoints[i]) > distance(q, basePoints[i])
       /\ ScansFirst(targetPoints[i], q)

\* ------------------------------------------------------------------------
\* Hover controller and lifecycle: claims C16 - C20
\* ------------------------------------------------------------------------

\* C16: a mouseenter sets the hover flag and a mouseleave clears it only
\* when the viewport is wider than 768 at the time of the event; at 768 or
\* less both leave the flag as it was.
C16_HoverOnlyOnDesktop ==
  /\ lastEvent = "mouseenter" =>
       isHovering = (IF innerWidth > 768 THEN TRUE ELSE flagBefore)
  /\ lastEvent = "mouseleave" =>
       isHovering = (IF innerWidth > 768 THEN FALSE ELSE flagBefore)

\* C16 witness: on a wide viewport the pointer entered (flag raised) and
\* then left (flag cleared).
C16_Witness ==
  /\ lastEvent = "mouseleave"
  /\ prevEvent = "mouseenter"
  /\ innerWidth > 768
  /\ flagBefore = TRUE
  /\ flagBefore2 = FALSE
  /\ isHovering = FALSE

ToggleEvents == {"click", "touchend"}

\* C17: a click or a touchend flips the hover flag when the viewport is at
\* most 768 wide at the time of the event and leaves it alone when wider;
\* two toggle events in a row, nothing else between, restore the flag.
C17_TapToggles ==
  /\ lastEvent \in ToggleEvents =>
       isHovering = (IF innerWidth <= 768 THEN ~ flagBefore ELSE flagBefore)
  /\ (lastEvent \in ToggleEvents /\ prevEvent \in ToggleEvents) =>
       isHovering = flagBefore2

\* C17 witness: on a narrow viewport a click flipped the flag and the
\* touchend after it flipped it back.
C17_Witness ==
  /\ lastEvent = "touchend"
  /\ prevEvent = "click"
  /\ innerWidth <= 768
  /\ isHovering # flagBefore
  /\ isHovering = flagBefore2

UserInputs == {"click", "touchend", "mouseleave"}

\* C18: the auto-activation timer is scheduled at most once, at the end of
\* setup and only on a viewport at most 768 wide; when it fires the flag is
\* true whatever it was; once it has fired it never fires again, and the
\* flag goes false only in a click, touchend or mouseleave handler.
C18_AutoActivation ==
  /\ [](lastEvent = "timer" => isHovering)
  /\ [][ (timer' = "armed" /\ timer # "armed")
          => (timer = "none" /\ pc = "timer" /\ innerWidth <= 768) ]_vars
  /\ [][ timer # "none" => timer' # "none" ]_vars
  /\ [][ timer = "fired" => timer' = "fired" ]_vars
  /\ [][ (timer = "fired" /\ isHovering /\ ~ isHovering')
          => (events' = events + 1 /\ lastEvent' \in UserInputs) ]_vars

\* C18 witness: the flag was already true when the timer fired, stayed
\* true, and a click after the firing cleared it.
C18_Witness ==
  /\ timer = "fired"
  /\ lastEvent = "click"
  /\ prevEvent = "timer"
  /\ flagBefore2 = TRUE
  /\ flagBefore = TRUE
  /\ isHovering = FALSE

\* C19: a resize handled by the instance changes only width, height and the
\* renderer's size: the buffers and which is current, the elapsed time, the
\* hover flag, hoverProgress, the particles and their reference and target
\* stay as they were, and the frame loop can go on.
C19_ResizeKeepsSimulation ==
  /\ [][ (events' = events + 1 /\ lastEvent' = "resize")
          => /\ UNCHANGED <<rt1, rt2, tex, simUPosition, renderUPosition, time,
                            isHovering, hoverProgress, particle, basePoints,
                            targetPoints, pc, frame, timer, listening>>
             /\ rendererSize' = <<width', height'>> ]_vars
  /\ []((lastEvent = "resize" /\ pc = "idle") => ENABLED Update)

\* C19 witness: a running, hovering instance (three frames made) handled a
\* resize that gave the renderer the container's new box.
C19_Witness ==
  /\ lastEvent = "resize"
  /\ rendererSize = <<300, 200>>
  /\ width = 300
  /\ frame >= 3
  /\ isHovering
  /\ hoverProgress > 0
  /\ pc = "idle"

\* C20: when the image fails to decode, init() ends at the rejected await:
\* no update() or render() is ever made, no listener is registered, no
\* handler runs and no timer is scheduled, for good.
C20_FailedLoadStartsNothing ==
  /\ [](pc = "failed" =>
         /\ frame = 0 /\ drawCount = 0 /\ time = 0
         /\ ~ listening /\ events = 0 /\ ~ isHovering
         /\ timer = "none"
         /\ rt1 = "none" /\ rt2 = "none")
  /\ [][ pc = "failed" => pc' = "failed" ]_vars

\* C20 witness: the load failed on a narrow viewport (where a successful
\* setup schedules the timer) and the viewport was resized afterwards.
C20_Witness ==
  /\ pc = "failed"
  /\ innerWidth <= 768
  /\ width > 768
  /\ timer = "none"

\* ------------------------------------------------------------------------
\* Sprite mask: claim C21
\* ------------------------------------------------------------------------

ShadedCoords == { c \in PointCoords : framebuffer[c] # NotShaded }

ProductionShape == 500
ProductionMinDistance == 8
ProductionSize == 256

\* Math.ceil(extent / (d / sqrt(2))): cells of the sampler's grid along one axis
CellsAcross(extent, d) ==
  CHOOSE g \in 0..(2 * extent + 1) :
    /\ Sq(g) * Sq(d) >= 2 * Sq(extent)
    /\ (g = 0 \/ Sq(g - 1) * Sq(d) < 2 * Sq(extent))

\* the points whose texel has been stored by createDataTexture
StoredPoints == IF isTarget THEN targetPoints ELSE basePoints

\* C22: index i addresses the texel in column i mod size and row
\* floor(i / size), distinct indices address distinct texels, the float
\* offset 4 * i createDataTexture stores at is the texel a lookup at the uv of
\* index i reads (so the lookup returns the position stored for i), and the
\* particle count never exceeds the size * size texels: it is at most the
\* number of grid cells, 89 * 89 for shape 500 and minDistance 8.
C22_IndexAddressesOwnTexel ==
  /\ \A i \in 1..Len(uvs) :
       /\ NearestTexel(uvs[i]) = <<(i - 1) % size, (i - 1) \div size>>
       /\ TexelOffset(NearestTexel(uvs[i])) = 4 * (i - 1)
       /\ texture2D(data, uvs[i])[1] = PosCoord(StoredPoints[i][1], ShapeW)
       /\ texture2D(data, uvs[i])[2] = PosCoord(StoredPoints[i][2], ShapeH)
       /\ \A j \in 1..Len(uvs) :
            i # j => NearestTexel(uvs[i]) # NearestTexel(uvs[j])
  /\ particleCount <= gridWidth * gridHeight
  /\ gridWidth * gridHeight <= size * size
  /\ Sq(CellsAcross(ProductionShape, ProductionMinDistance)) <= Sq(ProductionSize)

\* C22 witness: the base texture and the uv attribute are complete for four
\* particles, the last of them in the second row of the texture.
C22_Witness ==
  /\ texPc = "done"
  /\ ~ isTarget
  /\ Len(uvs) = 4
  /\ NearestTexel(uvs[4])[2] = 1

\* ------------------------------------------------------------------------
\* Grid occupancy: claim C23
\* ------------------------------------------------------------------------

\* the grid index addPoint computes for a point
CellOf(point) == CellFloor(point[2]) * gridWidth + CellFloor(point[1])

OccupiedCells == { c \in GridCells : grid[c] # NoPoint }

\* C23: at every moment of fill(), every accepted point is the content of
\* its own grid cell and every occupied cell holds an accepted point that
\* lies in it; so addPoint never stored into an occupied cell (the earlier
\* point would have lost its cell) and the grid holds one cell per point.
C23_OnePointPerCell ==
  /\ \A i \in 1..Len(points) : grid[CellOf(points[i])] = points[i]
  /\ \A c \in OccupiedCells : grid[c] \in PointSet /\ CellOf(grid[c]) = c
  /\ Cardinality(OccupiedCells) = Len(points)

\* C23 witness: fill() is spawning around a parent with four points
\* accepted, one of them in a cell next to another occupied cell.
C23_Witness ==
  /\ fillPc = "try"
  /\ Len(points) = 4
  /\ \E c \in OccupiedCells : c + 1 \in OccupiedCells /\ (c + 1) % gridWidth # 0

\* ------------------------------------------------------------------------
\* The movement step: claim C24
\* ------------------------------------------------------------------------

\* dist of the last pass and how far the pass moved the particle
LastPassDist == PassDist(prevTexel, particle, simUIsHovering)
LastMove == Abs(tex[simWrote].x - prevTexel.x)

\* the last pass ran the movement step alone (no rebirth)
Stepped == frame >= 1 /\ ~ LastReborn

\* so did the pass before it
SteppedTwice == frame >= 2 /\ ~ LastReborn /\ olderDist >= 0

\* C24 (as claimed): a pass that finds the particle closer to its goal than
\* the pass before moves it no farther than that pass did (the particle
\* decelerates on approach), and a particle within 0.005 of its goal is not
\* moved by the movement step.
C24_DeceleratesOnApproach ==
  /\ (SteppedTwice /\ LastPassDist < olderDist) => LastMove <= olderMove
  /\ (Stepped /\ LastPassDist <= Milli(5)) => LastMove = 0

\* C24 (amended): the movement step moves a particle by at most 0.01 and
\* not at all within 0.005 of its goal; where the build evaluates
\* smoothstep(0.15, 0.0, dist) by its formula, the step is 0 at distance
\* >= 0.15 and a pass that finds the particle closer to its goal (and
\* farther than 0.005) moves it at least as far as the pass before did.
C24_StepGrowsOnApproach ==
  /\ Stepped =>
       /\ LastMove <= Milli(10)
       /\ LastPassDist <= Milli(5) => LastMove = 0
       /\ (glslBuild = "formula" /\ LastPassDist >= Milli(150)) => LastMove = 0
  /\ (SteppedTwice /\ glslBuild = "formula"
        /\ LastPassDist > Milli(5) /\ LastPassDist < olderDist) =>
       LastMove >= olderMove

\* C24 witness: two passes in a row moved the particle toward its goal, the
\* second from closer and by more.
C24_Witness ==
  /\ SteppedTwice
  /\ glslBuild = "formula"
  /\ LastPassDist > Milli(5)
  /\ LastPassDist < olderDist
  /\ olderMove > 0
  /\ LastMove > olderMove

\* ------------------------------------------------------------------------
\* The hover filter under events: claim C25
\* ------------------------------------------------------------------------

\* update() runs in this step
FrameStep == frame' = frame + 1

\* C25: whatever handlers and timer callbacks run between the frames,
\* hoverProgress stays in [0, 1], and every update() moves it toward the
\* value of the flag at that moment without passing it: it does not
\* decrease and stays <= 1 while the flag is true, it does not increase and
\* stays >= 0 while the flag is false; no handler changes it.
C25_HoverProgressBounded ==
  /\ [](hoverProgress >= 0 /\ hoverProgress <= HoverOne)
  /\ [][/\ (FrameStep /\ isHovering) =>
            (hoverProgress' >= hoverProgress /\ hoverProgress' <= HoverOne)
        /\ (FrameStep /\ ~ isHovering) =>
            (hoverProgress' <= hoverProgress /\ hoverProgress' >= 0)
        /\ ~ FrameStep => hoverProgress' = hoverProgress]_vars

\* C25 witness: after frames that raised hoverProgress, a handler cleared
\* the flag and the next frame lowered hoverProgress, which is still
\* positive.
C25_Witness ==
  /\ frame >= 2
  /\ events >= 2
  /\ ~ isHovering
  /\ hoverProgress > 0
  /\ hoverProgress < prevHover

\* ------------------------------------------------------------------------
\* The first simulation pass: claim C26
\* ------------------------------------------------------------------------

\* C26: the first simulation pass samples positionTexture, the texture
\* createSimulation() built from the base points and bound to uPosition, so
\* the texel it reads holds the particle's base position.
C26_FirstPassReadsPositionTexture ==
  frame = 1 => (simRead = "P" /\ prevTexel.x = particle.ref)

\* ------------------------------------------------------------------------
\* Rebirth in every lifetime cycle: claim C27
\* ------------------------------------------------------------------------

\* lifeTime in the last pass and in the pass before it (at frame 1: at time 0)
LifeNow == (particle.seedPhase + time \div 2) % particle.lifeEnd
LifeBefore == (particle.seedPhase + (time - Milli(16)) \div 2) % particle.lifeEnd

\* lifeTime wrapped past lifeEnd between the two
Wrapped == frame >= 1 /\ LifeNow < LifeBefore

\* C27: the phase advances by 0.008 per frame, less than the rebirth window
\* 0.01, so the pass in which lifeTime has wrapped past lifeEnd finds
\* lifeTime < 0.01 and takes the rebirth branch (position = refPos,
\* scale = 0), for every lifeEnd and every phase.
C27_RebornEveryCycle ==
  Wrapped =>
    /\ LifeNow < Milli(10)
    /\ tex[simWrote].x = particle.ref
    /\ tex[simWrote].scale = 0

\* C27 witness: a second wrap of a particle with the longest lifetime, whose
\* lifeTime lands on the last values below the frame step.
C27_Witness ==
  /\ Wrapped
  /\ frame > 500
  /\ particle.lifeEnd = Milli(4000)
  /\ LifeNow >= 6

\* ------------------------------------------------------------------------
\* Desktop hover follows the pointer: claim C28
\* ------------------------------------------------------------------------

\* C28: whenever the viewport is wider than the breakpoint, the hover flag
\* is true only if the pointer is over the container, whatever pointer,
\* click, touchend, resize and timer events have run.
C28_WideHoverMeansPointerOver ==
  (innerWidth > Breakpoint /\ isHovering) => pointerOver

\* ------------------------------------------------------------------------
\* The contact form's submit button: claim C29
\* ------------------------------------------------------------------------

\* the data passes validation: a name of two characters or more and a
\* message of ten or more once trimmed, an address of the shape x@y.z
\* without blanks, and a service chosen
Acceptable(d) ==
  /\ Len(trim(d.name)) >= 2
  /\ isValidEmail(d.email)
  /\ d.service # << >>
  /\ Len(trim(d.message)) >= 10

\* the submit handler runs in this step
SubmitStep == submits' = submits + 1

Returned == { k \in 1..MaxCalls : calls[k].pc = "done" }

\* C30: as long as no load has failed the data file is fetched at most once
\* on a page, also when renderProjectGrid and renderCaseStudy both call
\* loadProjects from autoInit; and while the cache is unset every call that
\* has returned has returned an empty array.
C30_FetchedAtMostOnce ==
  /\ failures = 0 => fetches <= 1
  /\ projectsCache = Null => \A k \in Returned : calls[k].result = EmptyArray

====
